---- MODULE Spec2Model ----
(***************************************************************************)
(* A model of server.py of reddit-mcp-server: the five MCP tools            *)
(* (get_saved_posts, search_reddit, get_comments, reply_to_comment,         *)
(* fetch_reddit_post_content) and the module's helper functions.            *)
(*                                                                          *)
(* Strings the program builds are sequences of tokens, so that "the text    *)
(* contains X" is a statement about the sequence.  Python's None is the     *)
(* token None; an exception is a record [type, msg].  The provider (PRAW,   *)
(* redditwarp) is the environment: what it returns or raises is chosen      *)
(* nondeterministically from bounded sets.                                  *)
(***************************************************************************)
EXTENDS Integers, Sequences, FiniteSets, TLC

VARIABLES client, inv

vars == <<client, inv>>

(* ------------------------------ bounds -------------------------------- *)

\* longest saved / search / comment listing the provider returns
MaxItems == 3
\* largest value of a limit argument
MaxLimit == 3
\* widest forest (root nodes) the provider returns
MaxWidth == 2
\* deepest nesting below a root the provider returns
MaxHeight == 2
\* largest value of the comment_depth argument
MaxDepthArg == 2

(* --------------------------- Python values ---------------------------- *)

None == "<None>"

\* bool(x) of an Optional[str]
Truthy(s) == s # None /\ s # ""

\* str(x) as an f-string field renders it
Str(x) == IF x = None THEN "None" ELSE x

\* str.lower() on the subreddit names of the model
Lower(s) ==
    CASE s = "Py" -> "py"
      [] s = "PY" -> "py"
      [] s = "Go" -> "go"
      [] OTHER -> s

Min(a, b) == IF a <= b THEN a ELSE b

Take(s, n) == SubSeq(s, 1, Min(n, Len(s)))

\* the exception classes a provider call can raise: praw.exceptions.PRAWException
\* and the others (prawcore's request errors, AttributeError, ...), which derive
\* from Exception only
ExcTypes == {"PRAWException", "Exception"}

Excs == [type : ExcTypes, msg : {"e1"}]

\* isinstance(e, PRAWException)
IsPRAWException(e) == e.type = "PRAWException"

\* isinstance(e, Exception)
IsException(e) == e.type \in ExcTypes

NoExc == [type |-> "none", msg |-> ""]

Returned(v) == [raised |-> FALSE, exc |-> NoExc, value |-> v]

Raised(e) == [raised |-> TRUE, exc |-> e, value |-> <<>>]

(* ---------------------------- the clients ----------------------------- *)

\* the module-level objects: reddit = praw.Reddit(...), client = Client()
Clients == [reddit |-> "praw.Reddit", client |-> "redditwarp.Client"]

(* -------------------------- get_saved_posts --------------------------- *)

\* mutant: the author is taken as it is, absent or not
ItemAuthorRaw(item) == item.author

ItemAuthor(item) == IF item.author # None THEN item.author ELSE "[deleted]"

PostSummary(item) ==
    [title |-> item.title, url |-> item.url, author |-> ItemAuthor(item),
     subreddit |-> item.subreddit, created_utc |-> item.created_utc]

\* mutant: the subreddit names are compared as written
SubredditSkipsCaseSensitive(subreddit, item) ==
    Truthy(subreddit) /\ item.subreddit # subreddit

\* `subreddit and item.subreddit.display_name.lower() != subreddit.lower()`
SubredditSkips(subreddit, item) ==
    Truthy(subreddit) /\ Lower(item.subreddit) # Lower(subreddit)

\* me.saved(limit=limit) yields the first `limit` saved items (listing); it raises
\* world.exc in place of item world.failAfter + 1 (failAfter = -1: never)
RECURSIVE SavedLoop(_, _, _, _, _)
SavedLoop(listing, k, world, subreddit, saved_posts) ==
    IF k > Len(listing) THEN Returned(saved_posts)
    ELSE IF world.failAfter = k - 1 THEN Raised(world.exc)
    ELSE LET item == listing[k] IN
         IF item.cls = "Submission" /\ ~SubredditSkips(subreddit, item)
         THEN SavedLoop(listing, k + 1, world, subreddit,
                        Append(saved_posts, PostSummary(item)))
         ELSE SavedLoop(listing, k + 1, world, subreddit, saved_posts)

\* the try block of get_saved_posts
SavedTry(limit, subreddit, world) ==
    IF world.me = "raise" THEN Raised(world.exc)
    ELSE IF world.me = "none" THEN Returned(<<>>)
    ELSE SavedLoop(Take(world.items, limit), 1, world, subreddit, <<>>)

\* `except PRAWException`: the only handler of get_saved_posts
SavedCatches(e) == IsPRAWException(e)

get_saved_posts(limit, subreddit, world) ==
    LET r == SavedTry(limit, subreddit, world) IN
    IF r.raised /\ SavedCatches(r.exc) THEN Returned(<<>>) ELSE r

\* the saved items of the model: a saved comment and three saved posts
SavedComment ==
    [cls |-> "Comment", title |-> None, url |-> None, author |-> "carol",
     subreddit |-> "Py", created_utc |-> 10]

SavedItems ==
    { SavedComment,
      [cls |-> "Submission", title |-> "t1", url |-> "u1", author |-> "alice",
       subreddit |-> "Py", created_utc |-> 11],
      [cls |-> "Submission", title |-> "t2", url |-> "u2", author |-> None,
       subreddit |-> "Go", created_utc |-> 12],
      [cls |-> "Submission", title |-> "t3", url |-> "u3", author |-> "bob",
       subreddit |-> "PY", created_utc |-> 13] }

RECURSIVE SeqsUpTo(_, _)
SeqsUpTo(S, n) ==
    IF n = 0 THEN { <<>> }
    ELSE LET shorter == SeqsUpTo(S, n - 1) IN
         shorter \cup { Append(s, x) : s \in shorter, x \in S }

SubredditArgs == {None, "", "py", "rust"}

SavedWorlds ==
    [me : {"ok"}, items : SeqsUpTo(SavedItems, MaxItems), failAfter : {-1},
     exc : {NoExc}]
    \cup [me : {"ok"}, items : SeqsUpTo(SavedItems, MaxItems),
          failAfter : 0 .. MaxItems - 1, exc : Excs]
    \cup [me : {"none"}, items : {<<>>}, failAfter : {-1}, exc : {NoExc}]
    \cup [me : {"raise"}, items : {<<>>}, failAfter : {-1}, exc : Excs]

(* --------------------------- search_reddit ---------------------------- *)

\* reddit.subreddits.search yields Subreddit objects, which have no author
SubredditObject ==
    [cls |-> "Subreddit", title |-> "t0", url |-> "/r/py/", author |-> None,
     subreddit |-> None, created_utc |-> 9]

AttributeError == [type |-> "Exception", msg |-> "AttributeError"]

HasAuthorAttribute(post) == post.cls # "Subreddit"

RECURSIVE SearchLoop(_, _, _, _)
SearchLoop(posts, k, world, search_results) ==
    IF k > Len(posts) THEN Returned(search_results)
    ELSE IF world.failAfter = k - 1 THEN Raised(world.exc)
    ELSE IF ~HasAuthorAttribute(posts[k]) THEN Raised(AttributeError)
    ELSE SearchLoop(posts, k + 1, world, Append(search_results, PostSummary(posts[k])))

\* the try block of search_reddit: both scopes hand query, sort and limit to the
\* provider, whose listing holds at most `limit` posts
SearchTry(query, subreddit, sort, limit, world) ==
    SearchLoop(Take(world.items, limit), 1, world, <<>>)

\* `except PRAWException` and `except Exception`
SearchCatches(e) == IsPRAWException(e) \/ IsException(e)

search_reddit(query, subreddit, sort, limit, world) ==
    LET r == SearchTry(query, subreddit, sort, limit, world) IN
    IF r.raised /\ SearchCatches(r.exc) THEN Returned(<<>>) ELSE r

SearchItems == (SavedItems \ {SavedComment}) \cup {SubredditObject}

SearchWorlds ==
    [items : SeqsUpTo(SearchItems, MaxItems), failAfter : {-1}, exc : {NoExc}]
    \cup [items : SeqsUpTo(SearchItems, MaxItems), failAfter : 0 .. MaxItems - 1,
          exc : Excs]

(* ---------------------------- get_comments ---------------------------- *)

CommentSummary(c) ==
    [id |-> c.id, author |-> ItemAuthor(c), body |-> c.body, score |-> c.score,
     created_utc |-> c.created_utc]

\* the loop over submission.comments.list(): the limit is tested after an item
\* is processed
RECURSIVE CommentsLoop(_, _, _, _)
CommentsLoop(list, k, limit, comments_list) ==
    IF k > Len(list) THEN Returned(comments_list)
    ELSE LET c == list[k]
             appended == IF c.cls = "Comment"
                         THEN Append(comments_list, CommentSummary(c))
                         ELSE comments_list
         IN  IF Len(appended) >= limit THEN Returned(appended)
             ELSE CommentsLoop(list, k + 1, limit, appended)

\* the try block of get_comments: submission.comments fetches the submission,
\* replace_more(limit=None) expands the continuations, list() flattens
CommentsTry(submission_id, limit, world) ==
    IF world.fails \in {"comments", "replace_more"} THEN Raised(world.exc)
    ELSE CommentsLoop(world.list, 1, limit, <<>>)

\* `except PRAWException` and `except Exception`
CommentsCatches(e) == IsPRAWException(e) \/ IsException(e)

get_comments(submission_id, limit, world) ==
    LET r == CommentsTry(submission_id, limit, world) IN
    IF r.raised /\ CommentsCatches(r.exc) THEN Returned(<<>>) ELSE r

MoreComments ==
    [cls |-> "MoreComments", id |-> "m", author |-> None, body |-> None,
     score |-> 0, created_utc |-> 0]

CommentItems ==
    { MoreComments,
      [cls |-> "Comment", id |-> "c1", author |-> "alice", body |-> "b1",
       score |-> 5, created_utc |-> 21],
      [cls |-> "Comment", id |-> "c2", author |-> None, body |-> "b2",
       score |-> 1, created_utc |-> 22],
      [cls |-> "Comment", id |-> "c3", author |-> "bob", body |-> "b3",
       score |-> 9, created_utc |-> 23] }

CommentWorlds ==
    [fails : {"none"}, list : SeqsUpTo(CommentItems, MaxItems), exc : {NoExc}]
    \cup [fails : {"comments", "replace_more"}, list : {<<>>}, exc : Excs]

(* -------------------------- reply_to_comment -------------------------- *)

SuccessMessage == "Successfully replied to comment. New comment ID: "

\* mutant: only `except PRAWException` is there
reply_to_comment_PrawOnly(comment_id, text, world) ==
    IF world.reply = "raise"
    THEN IF IsPRAWException(world.exc)
         THEN Returned(<<"Failed to reply to comment: ", world.exc.msg>>)
         ELSE Raised(world.exc)
    ELSE IF world.reply = "comment"
    THEN Returned(<<SuccessMessage, world.id>>)
    ELSE Returned(<<"Failed to reply to comment: The reply operation returned no object.">>)

\* the try block of reply_to_comment, with its two handlers
reply_to_comment(comment_id, text, world) ==
    IF world.reply = "raise"
    THEN IF IsPRAWException(world.exc)
         THEN Returned(<<"Failed to reply to comment: ", world.exc.msg>>)
         ELSE IF IsException(world.exc)
         THEN Returned(<<"Failed to reply to comment due to an unexpected error: ",
                         world.exc.msg>>)
         ELSE Raised(world.exc)
    ELSE IF world.reply = "comment"
    THEN Returned(<<SuccessMessage, world.id>>)
    ELSE Returned(<<"Failed to reply to comment: The reply operation returned no object.">>)

ReplyWorlds ==
    [reply : {"comment"}, id : {"n1", "n2"}, exc : {NoExc}]
    \cup [reply : {"none"}, id : {None}, exc : {NoExc}]
    \cup [reply : {"raise"}, id : {None}, exc : Excs]

(* ------------------------- the PRAW helpers --------------------------- *)

\* `pattern in url` for the URLs and the two gallery patterns of the model
GalleryUrl == "https://www.reddit.com/gallery/g1"

ReddItGalleryUrl == "https://redd.it/gallery"

LinkUrl == "https://example.com/a"

VideoUrl == "https://v.redd.it/v1"

HasSubstring(url, pattern) ==
    \/ url = GalleryUrl /\ pattern = "/gallery/"
    \/ url = ReddItGalleryUrl /\ pattern = "redd.it/gallery"

\* mutant: the video flag is tested before the self flag
_praw_get_post_type_VideoFirst(submission) ==
    IF submission.is_video THEN "video"
    ELSE IF submission.is_self THEN "text"
    ELSE IF Truthy(submission.url)
            /\ (HasSubstring(submission.url, "redd.it/gallery")
                \/ HasSubstring(submission.url, "/gallery/"))
    THEN "gallery"
    ELSE IF Truthy(submission.url) THEN "link"
    ELSE "unknown"

_praw_get_post_type(submission) ==
    IF submission.is_self THEN "text"
    ELSE IF submission.is_video THEN "video"
    ELSE IF Truthy(submission.url)
            /\ (HasSubstring(submission.url, "redd.it/gallery")
                \/ HasSubstring(submission.url, "/gallery/"))
    THEN "gallery"
    ELSE IF Truthy(submission.url) THEN "link"
    ELSE "unknown"

\* mutant: the URL is preferred to the body
_praw_get_content_UrlFirst(submission) ==
    IF Truthy(submission.url) THEN submission.url
    ELSE IF submission.is_self THEN submission.selftext
    ELSE None

_praw_get_content(submission) ==
    IF submission.is_self THEN submission.selftext
    ELSE IF Truthy(submission.url) /\ ~submission.is_self THEN submission.url
    ELSE None

PrawSubmissions ==
    [is_self : BOOLEAN, is_video : BOOLEAN,
     url : {None, "", GalleryUrl, ReddItGalleryUrl, LinkUrl, VideoUrl},
     selftext : {"", "body"}]

\* n copies of a token
Rep(tok, n) == [j \in 1 .. n |-> tok]

\* comment.body.replace('\n', '\n' + indent_str + '    '): body is its lines
RECURSIVE IndentBody(_, _, _)
IndentBody(lines, k, indent_level) ==
    IF k > Len(lines) THEN <<>>
    ELSE (IF k = 1 THEN <<>> ELSE <<"\n">> \o Rep("    ", indent_level) \o <<"    ">>)
         \o <<lines[k]>> \o IndentBody(lines, k + 1, indent_level)

PrawBlock(comment, indent_level) ==
    Rep("    ", indent_level)
    \o <<"- Author: ", ItemAuthor(comment), ", Score: ", ToString(comment.score), "\n">>
    \o Rep("    ", indent_level) \o <<"  ">> \o IndentBody(comment.body, 1, indent_level)
    \o <<"\n">>

RECURSIVE _praw_format_comment_tree(_, _, _)
RECURSIVE PrawReplies(_, _, _, _, _)
\* the loop over comment.replies
PrawReplies(replies, k, indent_level, max_depth, formatted_comment) ==
    IF k > Len(replies) THEN formatted_comment
    ELSE IF replies[k].cls = "Comment"
    THEN PrawReplies(replies, k + 1, indent_level, max_depth,
                     formatted_comment
                     \o _praw_format_comment_tree(replies[k], indent_level + 1, max_depth))
    ELSE PrawReplies(replies, k + 1, indent_level, max_depth, formatted_comment)

_praw_format_comment_tree(comment, indent_level, max_depth) ==
    IF indent_level >= max_depth THEN <<>>
    ELSE PrawReplies(comment.replies, 1, indent_level, max_depth,
                     PrawBlock(comment, indent_level))

PrawAuthors == <<"alice", None, "bob">>

PrawBodies == << <<"b1">>, <<"b2", "b3">> >>

PrawMore ==
    [cls |-> "MoreComments", author |-> None, score |-> 0, body |-> <<>>,
     replies |-> <<>>]

\* a comment with k replies at every level down to height h, the authors and
\* bodies rotating; `more`: a continuation marker left at the end of the replies
RECURSIVE PrawTreeOf(_, _, _, _)
PrawTreeOf(h, k, a, more) ==
    [cls |-> "Comment", author |-> PrawAuthors[(a % 3) + 1], score |-> a,
     body |-> PrawBodies[(a % 2) + 1],
     replies |-> IF h = 0 THEN <<>>
                 ELSE [j \in 1 .. k |-> PrawTreeOf(h - 1, k, a + j, more)]
                      \o (IF more THEN <<PrawMore>> ELSE <<>>)]

PrawTrees ==
    { PrawTreeOf(h, k, a, more) :
        h \in 0 .. MaxHeight, k \in 1 .. 2, a \in 0 .. 2, more \in BOOLEAN }

(* ----------------------- the redditwarp helpers ----------------------- *)

\* `x or '[deleted]'`
OrDeleted(x) == IF Truthy(x) THEN x ELSE "[deleted]"

Block(comment, depth) ==
    Rep("-- ", depth) \o <<"* Author: ", OrDeleted(comment.author_display_name), "\n">>
    \o Rep("-- ", depth) \o <<"  Score: ", ToString(comment.score), "\n">>
    \o Rep("-- ", depth) \o <<"  ", comment.body, "\n">>

RECURSIVE _redditwarp_format_comment_tree(_, _)
RECURSIVE FormatChildren(_, _, _, _)
\* the loop over comment_node.children
FormatChildren(children, k, depth, content) ==
    IF k > Len(children) THEN Returned(content)
    ELSE LET r == _redditwarp_format_comment_tree(children[k], depth + 1) IN
         IF r.raised THEN r
         ELSE FormatChildren(children, k + 1, depth, content \o <<"\n">> \o r.value)

\* a node whose attributes cannot be read (broken) raises where they are read
_redditwarp_format_comment_tree(comment_node, depth) ==
    IF comment_node.broken THEN Raised(AttributeError)
    ELSE FormatChildren(comment_node.children, 1, depth, Block(comment_node, depth))

_redditwarp_get_post_type(submission) ==
    IF submission.cls = "LinkPost" THEN "link"
    ELSE IF submission.cls = "TextPost" THEN "text"
    ELSE IF submission.cls = "GalleryPost" THEN "gallery"
    ELSE "unknown"

_redditwarp_get_content(submission) ==
    IF submission.cls = "LinkPost" THEN submission.permalink
    ELSE IF submission.cls = "TextPost" THEN submission.body
    ELSE IF submission.cls = "GalleryPost" THEN Str(submission.gallery_link)
    ELSE None

WarpSubmissions ==
    [cls : {"LinkPost", "TextPost", "GalleryPost", "Submission"}, title : {"T"},
     score : {3}, author_display_name : {"alice", None, ""},
     permalink : {"https://reddit.com/r/py/comments/p1"}, link : {LinkUrl},
     body : {"body"}, gallery_link : {GalleryUrl}]

WarpAuthors == <<"alice", None, "">>

\* a node with k children at every level down to height h, the authors rotating;
\* `broken`: the leaves cannot be formatted
RECURSIVE WarpTreeOf(_, _, _, _)
WarpTreeOf(h, k, a, broken) ==
    [author_display_name |-> WarpAuthors[(a % 3) + 1], score |-> a, body |-> "b",
     broken |-> broken /\ h = 0,
     children |-> IF h = 0 THEN <<>>
                  ELSE [j \in 1 .. k |-> WarpTreeOf(h - 1, k, a + j, broken)]]

Forests ==
    { [j \in 1 .. w |-> WarpTreeOf(h, k, a + j - 1, broken)] :
        w \in 0 .. MaxWidth, h \in 0 .. MaxHeight, k \in 1 .. 2, a \in 0 .. 2,
        broken \in BOOLEAN }

(* --------------------- fetch_reddit_post_content ---------------------- *)

\* the post header: the f-string of lines 353-359
Header(submission) ==
    <<"Title: ", submission.title, "\n",
      "Score: ", ToString(submission.score), "\n",
      "Author: ", OrDeleted(submission.author_display_name), "\n",
      "Type: ", _redditwarp_get_post_type(submission), "\n",
      "Content: ", Str(_redditwarp_get_content(submission)), "\n">>

\* the loop over comments.children
RECURSIVE FormatRoots(_, _, _)
FormatRoots(children, k, content) ==
    IF k > Len(children) THEN Returned(content)
    ELSE LET r == _redditwarp_format_comment_tree(children[k], 0) IN
         IF r.raised THEN r
         ELSE FormatRoots(children, k + 1, content \o <<"\n">> \o r.value)

CommentsSection(content, children) ==
    IF Len(children) > 0
    THEN FormatRoots(children, 1, content \o <<"\nComments:\n">>)
    ELSE Returned(content \o <<"\nNo comments found.">>)

\* mutant: only PRAW's exceptions are caught
FetchCatchesPrawOnly(e) == IsPRAWException(e)

\* `except Exception as e: return f"An error occurred: {str(e)}"`
FetchCatches(e) == IsException(e)

ErrorString(e) == <<"An error occurred: ", e.msg>>

FetchHandled(r) ==
    IF r.raised /\ FetchCatches(r.exc) THEN Returned(ErrorString(r.exc)) ELSE r

\* the whole coroutine, run without interruption on the provider's two responses
fetch_reddit_post_content(post_id, comment_limit, comment_depth, world) ==
    FetchHandled(IF world.sub.raised THEN Raised(world.sub.exc)
                 ELSE IF world.tree.raised THEN Raised(world.tree.exc)
                 ELSE CommentsSection(Header(world.sub.value), world.tree.value))

SubmissionResponses == { Returned(x) : x \in WarpSubmissions } \cup { Raised(e) : e \in Excs }

TreeResponses == { Returned(f) : f \in Forests } \cup { Raised(e) : e \in Excs }

(* ---------------------------- invocations ----------------------------- *)

\* the calls in flight: Spec issues one call at a time (invocation 1), SpecConc
\* lets the fetches of both overlap
Invocations == {1, 2}

\* no response yet
Pending == Returned(<<>>)

Idle ==
    [pc |-> "idle", tool |-> "none", args |-> <<>>, world |-> <<>>,
     content |-> <<>>, submission_fetches |-> 0, tree_fetches |-> 0,
     out |-> Returned(<<>>)]

\* a synchronous function has run to its end
Done(tool, args, world, out) ==
    [pc |-> "done", tool |-> tool, args |-> args, world |-> world,
     content |-> <<>>, submission_fetches |-> 0, tree_fetches |-> 0, out |-> out]

Init ==
    /\ client = Clients
    /\ inv = [i \in Invocations |-> Idle]

CallGetSavedPosts(i) ==
    /\ inv[i].pc = "idle"
    /\ \E limit \in 0 .. MaxLimit, subreddit \in SubredditArgs, world \in SavedWorlds :
         inv' = [inv EXCEPT ![i] =
                   Done("get_saved_posts", [limit |-> limit, subreddit |-> subreddit],
                        world, get_saved_posts(limit, subreddit, world))]
    /\ UNCHANGED client

CallSearchReddit(i) ==
    /\ inv[i].pc = "idle"
    /\ \E limit \in 0 .. MaxLimit, subreddit \in {None, "", "py"}, world \in SearchWorlds :
         inv' = [inv EXCEPT ![i] =
                   Done("search_reddit",
                        [query |-> "q", subreddit |-> subreddit, sort |-> "relevance",
                         limit |-> limit],
                        world, search_reddit("q", subreddit, "relevance", limit, world))]
    /\ UNCHANGED client

CallGetComments(i) ==
    /\ inv[i].pc = "idle"
    /\ \E limit \in 0 .. MaxLimit, world \in CommentWorlds :
         inv' = [inv EXCEPT ![i] =
                   Done("get_comments", [submission_id |-> "abc", limit |-> limit],
                        world, get_comments("abc", limit, world))]
    /\ UNCHANGED client

CallReplyToComment(i) ==
    /\ inv[i].pc = "idle"
    /\ \E text \in {"x1", "x2"}, world \in ReplyWorlds :
         inv' = [inv EXCEPT ![i] =
                   Done("reply_to_comment", [comment_id |-> "c1", text |-> text],
                        world, reply_to_comment("c1", text, world))]
    /\ UNCHANGED client

\* the helpers called on their own
CallPrawGetPostType(i) ==
    /\ inv[i].pc = "idle"
    /\ \E submission \in PrawSubmissions :
         inv' = [inv EXCEPT ![i] =
                   Done("_praw_get_post_type", [submission |-> submission], <<>>,
                        Returned(_praw_get_post_type(submission)))]
    /\ UNCHANGED client

CallPrawGetContent(i) ==
    /\ inv[i].pc = "idle"
    /\ \E submission \in PrawSubmissions :
         inv' = [inv EXCEPT ![i] =
                   Done("_praw_get_content", [submission |-> submission], <<>>,
                        Returned(_praw_get_content(submission)))]
    /\ UNCHANGED client

CallPrawFormatCommentTree(i) ==
    /\ inv[i].pc = "idle"
    /\ \E comment \in PrawTrees, max_depth \in 0 .. MaxDepthArg :
         inv' = [inv EXCEPT ![i] =
                   Done("_praw_format_comment_tree",
                        [comment |-> comment, indent_level |-> 0, max_depth |-> max_depth],
                        <<>>, Returned(_praw_format_comment_tree(comment, 0, max_depth)))]
    /\ UNCHANGED client

CallRedditwarpGetPostType(i) ==
    /\ inv[i].pc = "idle"
    /\ \E submission \in WarpSubmissions :
         inv' = [inv EXCEPT ![i] =
                   Done("_redditwarp_get_post_type", [submission |-> submission], <<>>,
                        Returned(_redditwarp_get_post_type(submission)))]
    /\ UNCHANGED client

CallRedditwarpGetContent(i) ==
    /\ inv[i].pc = "idle"
    /\ \E submission \in WarpSubmissions :
         inv' = [inv EXCEPT ![i] =
                   Done("_redditwarp_get_content", [submission |-> submission], <<>>,
                        Returned(_redditwarp_get_content(submission)))]
    /\ UNCHANGED client

\* mutant: `content` is one buffer of the module, the first invocation's
ContentOfShared(i) == inv[1].content

\* the local variable `content` of invocation i
ContentOf(i) == inv[i].content

\* the coroutine is entered and suspends at `await client.p.submission.fetch`
FetchStart(i, Limits, Depths) ==
    /\ inv[i].pc = "idle"
    /\ \E comment_limit \in Limits, comment_depth \in Depths :
         inv' = [inv EXCEPT ![i] =
                   [pc |-> "await_submission", tool |-> "fetch_reddit_post_content",
                    args |-> [post_id |-> "p1", comment_limit |-> comment_limit,
                              comment_depth |-> comment_depth],
                    world |-> [sub |-> Pending, tree |-> Pending],
                    content |-> <<>>, submission_fetches |-> 1, tree_fetches |-> 0,
                    out |-> Returned(<<>>)]]
    /\ UNCHANGED client

\* the submission fetch completes: the header is built and the coroutine suspends
\* again at `await client.p.comment_tree.fetch`, or the handler returns
FetchSubmissionReturns(i, Responses) ==
    /\ inv[i].pc = "await_submission"
    /\ \E resp \in Responses :
         inv' = [inv EXCEPT ![i] =
                   IF resp.raised
                   THEN [@ EXCEPT !.pc = "done", !.world.sub = resp,
                                  !.out = FetchHandled(resp)]
                   ELSE [@ EXCEPT !.pc = "await_tree", !.world.sub = resp,
                                  !.content = Header(resp.value),
                                  !.tree_fetches = @ + 1]]
    /\ UNCHANGED client

\* the comment tree fetch completes: the forest is formatted and returned
FetchTreeReturns(i, Responses) ==
    /\ inv[i].pc = "await_tree"
    /\ \E resp \in Responses :
         inv' = [inv EXCEPT ![i] =
                   [@ EXCEPT !.pc = "done", !.world.tree = resp,
                             !.out = FetchHandled(
                                        IF resp.raised THEN resp
                                        ELSE CommentsSection(ContentOf(i), resp.value))]]
    /\ UNCHANGED client

\* the result is handed to the caller; the invocation's locals are gone
Return(i) ==
    /\ inv[i].pc = "done"
    /\ inv' = [inv EXCEPT ![i] = Idle]
    /\ UNCHANGED client

Next ==
    \/ CallGetSavedPosts(1)
    \/ CallSearchReddit(1)
    \/ CallGetComments(1)
    \/ CallReplyToComment(1)
    \/ CallPrawGetPostType(1)
    \/ CallPrawGetContent(1)
    \/ CallPrawFormatCommentTree(1)
    \/ CallRedditwarpGetPostType(1)
    \/ CallRedditwarpGetContent(1)
    \/ FetchStart(1, 0 .. MaxLimit, 0 .. MaxDepthArg)
    \/ FetchSubmissionReturns(1, SubmissionResponses)
    \/ FetchTreeReturns(1, TreeResponses)
    \/ Return(1)

Spec == Init /\ [][Next]_vars

\* the responses the overlapping fetches of SpecConc receive
ConcSubmissionResponses ==
    { Returned(x) : x \in { y \in WarpSubmissions :
                              y.cls \in {"LinkPost", "TextPost"}
                              /\ y.author_display_name # "" } }
    \cup { Raised(e) : e \in Excs }

ConcTreeResponses ==
    { Returned(f) : f \in { g \in Forests : Len(g) <= 1 } } \cup { Raised(e) : e \in Excs }

NextConc ==
    \E i \in Invocations :
        \/ FetchStart(i, {1}, {1})
        \/ FetchSubmissionReturns(i, ConcSubmissionResponses)
        \/ FetchTreeReturns(i, ConcTreeResponses)
        \/ Return(i)

SpecConc == Init /\ [][NextConc]_vars

(* ====================================================================== *)
(*                              the claims                                *)
(* ====================================================================== *)

\* the invocations of `tool` that have run to their end
Finished(tool) == { i \in Invocations : inv[i].pc = "done" /\ inv[i].tool = tool }

Tokens(text) == { text[p] : p \in 1 .. Len(text) }

\* what the specification asks to be shown for an author
Presented(a) == IF a = None \/ a = "" THEN "[deleted]" ELSE a

\* the tokens that follow each occurrence of `marker`, in order
TokensAfter(text, marker) ==
    LET IsMarker(p) == text[p] = marker
        at == SelectSeq([p \in 1 .. Len(text) - 1 |-> p], IsMarker)
    IN  [j \in 1 .. Len(at) |-> text[at[j] + 1]]

\* how many `tok` tokens stand immediately before position p
RECURSIVE RunBefore(_, _, _)
RunBefore(text, p, tok) ==
    IF p > 1 /\ text[p - 1] = tok THEN 1 + RunBefore(text, p - 1, tok) ELSE 0

\* the depths of the comment blocks a formatted document holds, by position
BlockPositions(text) == { p \in 1 .. Len(text) : text[p] = "* Author: " }

BlockDepth(text, p) == RunBefore(text, p, "-- ")

RootBlocks(text) == { p \in BlockPositions(text) : BlockDepth(text, p) = 0 }

RECURSIVE HasBroken(_)
HasBroken(nodes) ==
    \E j \in 1 .. Len(nodes) : nodes[j].broken \/ HasBroken(nodes[j].children)

\* a provider call of the invocation raised
SavedFailed(r) ==
    \/ r.world.me = "raise"
    \/ /\ r.world.me = "ok"
       /\ r.world.failAfter >= 0
       /\ r.world.failAfter < Len(Take(r.world.items, r.args.limit))

SearchFailed(r) ==
    LET posts == Take(r.world.items, r.args.limit) IN
    \/ r.world.failAfter >= 0 /\ r.world.failAfter < Len(posts)
    \/ \E k \in 1 .. Len(posts) : posts[k].cls = "Subreddit"

CommentsFailed(r) == r.world.fails # "none"

(* C1: whenever a provider call made by get_saved_posts, search_reddit or      *)
(* get_comments raises, whatever the exception, the tool does not raise and    *)
(* returns the empty list.                                                     *)
C1_ReadToolsSwallowEveryFailure ==
    /\ \A i \in Finished("get_saved_posts") :
         SavedFailed(inv[i]) => ~inv[i].out.raised /\ inv[i].out.value = <<>>
    /\ \A i \in Finished("search_reddit") :
         SearchFailed(inv[i]) => ~inv[i].out.raised /\ inv[i].out.value = <<>>
    /\ \A i \in Finished("get_comments") :
         CommentsFailed(inv[i]) => ~inv[i].out.raised /\ inv[i].out.value = <<>>

\* the real comments of a listing, as the summaries the specification asks for
RECURSIVE RealComments(_)
RealComments(list) ==
    IF list = <<>> THEN <<>>
    ELSE (IF Head(list).cls = "Comment"
          THEN << [id |-> Head(list).id, author |-> Presented(Head(list).author),
                   body |-> Head(list).body, score |-> Head(list).score,
                   created_utc |-> Head(list).created_utc] >>
          ELSE <<>>)
         \o RealComments(Tail(list))

(* C2: for every limit L >= 0 and every listing with n real comments,          *)
(* get_comments returns the first min(L, n) real comments in provider order:   *)
(* never more than L entries, never a continuation marker.                     *)
C2_CommentsAreFirstMinLimit ==
    \A i \in Finished("get_comments") :
        ~CommentsFailed(inv[i]) =>
            /\ ~inv[i].out.raised
            /\ inv[i].out.value = Take(RealComments(inv[i].world.list), inv[i].args.limit)
            /\ Len(inv[i].out.value) <= inv[i].args.limit

\* a fetch that got both responses and formatted the forest
Formatted(i) ==
    /\ i \in Finished("fetch_reddit_post_content")
    /\ ~inv[i].world.sub.raised
    /\ ~inv[i].world.tree.raised
    /\ ~HasBroken(inv[i].world.tree.value)

(* C3: whatever forest the provider hands back, the document                   *)
(* fetch_reddit_post_content(post_id, comment_limit = N, comment_depth = D)    *)
(* returns holds at most N root-level comment blocks and no comment block at   *)
(* depth >= D.                                                                 *)
C3_DocumentBoundedByLimitAndDepth ==
    \A i \in Invocations :
        Formatted(i) =>
            LET text == inv[i].out.value IN
            /\ Cardinality(RootBlocks(text)) <= inv[i].args.comment_limit
            /\ \A p \in BlockPositions(text) :
                 BlockDepth(text, p) < inv[i].args.comment_depth

FailurePrefixes ==
    { "Failed to reply to comment: ",
      "Failed to reply to comment due to an unexpected error: ",
      "Failed to reply to comment: The reply operation returned no object." }

(* C4: reply_to_comment never raises; when the provider's reply yields a new   *)
(* comment the returned string contains its id; when the provider raises or    *)
(* yields no object the returned string is a failure description with no       *)
(* success message in it.                                                      *)
C4_ReplyNeverRaises ==
    \A i \in Finished("reply_to_comment") :
        LET r == inv[i] IN
        /\ ~r.out.raised
        /\ r.world.reply = "comment" =>
             /\ r.world.id \in Tokens(r.out.value)
             /\ r.out.value[1] = SuccessMessage
        /\ r.world.reply \in {"raise", "none"} =>
             /\ r.out.value[1] \in FailurePrefixes
             /\ SuccessMessage \notin Tokens(r.out.value)
        /\ r.world.reply = "raise" => r.world.exc.msg \in Tokens(r.out.value)

C4_Witness ==
    \E i \in Finished("reply_to_comment") :
        /\ inv[i].world.reply = "raise"
        /\ inv[i].world.exc.type = "Exception"
        /\ inv[i].out.value[1] = "Failed to reply to comment due to an unexpected error: "

\* the text an invocation has built or could have built from what it received
BuiltTokens(r) ==
    (IF r.world.sub.raised THEN {} ELSE Tokens(Header(r.world.sub.value)))
    \cup {"\nComments:\n", "\nNo comments found.", "* Author: ", "  Score: ", "-- "}

FetchFailed(r) ==
    \/ r.world.sub.raised
    \/ r.world.tree.raised
    \/ HasBroken(r.world.tree.value)

(* C5: fetch_reddit_post_content never raises; each of its two fetches is      *)
(* issued at most once; after a failed submission fetch the comment tree fetch *)
(* is never issued; and when a fetch or the formatting of a node fails the     *)
(* result is the failure description alone, with none of the header or comment *)
(* text built so far.                                                          *)
C5_FetchFailsWhole ==
    \A i \in Invocations :
        inv[i].tool = "fetch_reddit_post_content" =>
            LET r == inv[i] IN
            /\ r.submission_fetches <= 1
            /\ r.tree_fetches <= 1
            /\ r.world.sub.raised => r.tree_fetches = 0
            /\ r.pc = "done" => ~r.out.raised
            /\ r.pc = "done" /\ FetchFailed(r) =>
                 /\ Len(r.out.value) = 2
                 /\ r.out.value[1] = "An error occurred: "
                 /\ Tokens(r.out.value) \cap BuiltTokens(r) = {}

C5_Witness ==
    \E i \in Finished("fetch_reddit_post_content") :
        /\ ~inv[i].world.sub.raised
        /\ inv[i].world.tree.raised
        /\ inv[i].world.tree.exc.type = "Exception"
        /\ inv[i].tree_fetches = 1
        /\ inv[i].out.value = <<"An error occurred: ", "e1">>

\* the URLs that match the gallery pattern
GalleryUrls == {GalleryUrl, ReddItGalleryUrl}

EmptyUrl(url) == url = None \/ url = ""

ExpectedSaved(items, limit, subreddit) ==
    LET Kept(item) ==
            /\ item.cls = "Submission"
            /\ Truthy(subreddit) => Lower(item.subreddit) = Lower(subreddit)
        kept == SelectSeq(Take(items, limit), Kept)
    IN  [j \in 1 .. Len(kept) |->
           [title |-> kept[j].title, url |-> kept[j].url,
            author |-> Presented(kept[j].author), subreddit |-> kept[j].subreddit,
            created_utc |-> kept[j].created_utc]]

(* C8: get_saved_posts returns, in provider order, one summary for each of the *)
(* first `limit` saved items that is a submission and, when a filter is given, *)
(* whose subreddit equals the filter ignoring case; saved comments never       *)
(* appear, and a filter that matches nothing yields the empty list.            *)
C8_SavedProjection ==
    \A i \in Finished("get_saved_posts") :
        LET r == inv[i] IN
        r.world.me = "ok" /\ ~SavedFailed(r) =>
            /\ ~r.out.raised
            /\ r.out.value = ExpectedSaved(r.world.items, r.args.limit, r.args.subreddit)
            /\ \A j \in 1 .. Len(r.out.value) : r.out.value[j].title # SavedComment.title

C8_Witness ==
    \E i \in Finished("get_saved_posts") :
        LET r == inv[i] IN
        /\ r.world.me = "ok" /\ ~SavedFailed(r)
        /\ r.args.limit = 2 /\ Len(r.world.items) = 3
        /\ r.args.subreddit = "py"
        /\ r.world.items[1].cls = "Comment"
        /\ r.world.items[2].subreddit = "PY"
        /\ r.world.items[3].subreddit = "Py"
        /\ Len(r.out.value) = 1 /\ r.out.value[1].subreddit = "PY"

\* the authors of a forest's nodes as they are to be shown, in document order
RECURSIVE PreorderAuthors(_)
PreorderAuthors(nodes) ==
    IF nodes = <<>> THEN <<>>
    ELSE <<Presented(Head(nodes).author_display_name)>>
         \o PreorderAuthors(Head(nodes).children) \o PreorderAuthors(Tail(nodes))

\* the same for the PRAW tree, down to max_depth and without the markers
RECURSIVE PrawPreorderAuthors(_, _, _)
PrawPreorderAuthors(nodes, level, max_depth) ==
    IF nodes = <<>> \/ level >= max_depth THEN <<>>
    ELSE (IF Head(nodes).cls = "Comment"
          THEN <<Presented(Head(nodes).author)>>
               \o PrawPreorderAuthors(Head(nodes).replies, level + 1, max_depth)
          ELSE <<>>)
         \o PrawPreorderAuthors(Tail(nodes), level, max_depth)

\* every summary of `out` is the summary of an item of `items` (by key), with
\* that item's author as it is to be shown
AuthorsShown(out, items, Key(_)) ==
    \A j \in 1 .. Len(out) :
        /\ out[j].author \notin {None, ""}
        /\ \E k \in 1 .. Len(items) :
             Key(items[k]) = Key(out[j]) /\ out[j].author = Presented(items[k].author)

(* C9: the author shown in a post summary, a comment summary, the post header  *)
(* and a rendered comment block is never null or blank: it is the author's     *)
(* name when there is one and the literal [deleted] otherwise.                 *)
C9_AuthorNeverBlank ==
    LET Title(x) == x.title
        Id(x) == x.id
    IN
    /\ \A i \in Finished("get_saved_posts") :
         AuthorsShown(inv[i].out.value, inv[i].world.items, Title)
    /\ \A i \in Finished("search_reddit") :
         AuthorsShown(inv[i].out.value, inv[i].world.items, Title)
    /\ \A i \in Finished("get_comments") :
         AuthorsShown(inv[i].out.value, inv[i].world.list, Id)
    /\ \A i \in Finished("_praw_format_comment_tree") :
         TokensAfter(inv[i].out.value, "- Author: ")
           = PrawPreorderAuthors(<<inv[i].args.comment>>, 0, inv[i].args.max_depth)
    /\ \A i \in Invocations :
         Formatted(i) =>
            /\ TokensAfter(inv[i].out.value, "Author: ")
                 = <<Presented(inv[i].world.sub.value.author_display_name)>>
            /\ TokensAfter(inv[i].out.value, "* Author: ")
                 = PreorderAuthors(inv[i].world.tree.value)
            /\ \A a \in Tokens(TokensAfter(inv[i].out.value, "* Author: ")) :
                 a \notin {None, ""}

C9_Witness ==
    \E i \in Invocations :
        /\ Formatted(i)
        /\ inv[i].world.sub.value.author_display_name = None
        /\ Len(inv[i].world.tree.value) = 2
        /\ inv[i].world.tree.value[1].author_display_name = ""
        /\ inv[i].world.tree.value[2].author_display_name = "alice"
        /\ TokensAfter(inv[i].out.value, "Author: ") = <<"[deleted]">>
        /\ "[deleted]" \in Tokens(TokensAfter(inv[i].out.value, "* Author: "))

(* C10: when fetch_reddit_post_content invocations overlap, each one's result  *)
(* is the result the coroutine gives when run alone on the responses that      *)
(* invocation received, and the process-wide client objects are never changed. *)
C10_OverlappingFetchesIndependent ==
    /\ client = Clients
    /\ \A i \in Finished("fetch_reddit_post_content") :
         inv[i].out = fetch_reddit_post_content(inv[i].args.post_id,
                                                inv[i].args.comment_limit,
                                                inv[i].args.comment_depth, inv[i].world)
    /\ \A i \in Invocations :
         inv[i].pc = "await_tree" => inv[i].content = Header(inv[i].world.sub.value)

\* invocation 2 finished its document while invocation 1, which entered first
\* and received another submission, is still suspended at its second await
C10_Witness ==
    /\ inv[1].pc = "await_tree"
    /\ Formatted(2)
    /\ inv[2].world.sub.value # inv[1].world.sub.value
    /\ Len(inv[2].world.tree.value) = 1
    /\ "* Author: " \in Tokens(inv[2].out.value)

====
